---- MODULE Spec2Model ----
(***************************************************************************)
(* Reference-counted smart pointers: control blocks with a strong and a    *)
(* weak counter, SharedPtr, WeakPtr and EnableSharedFromThis               *)
(* (src/shared-from-this/shared.h, src/weak/weak.h, src/shared/shared.h).  *)
(*                                                                         *)
(* An allocation id a \in Alloc names one heap allocation made by the      *)
(* program: objs[a] is the managed object and blocks[a] is the control     *)
(* block that was created for it (PtrControlBlock or ObjectControlBlock).  *)
(* Pointers are numbers: 0 is nullptr, a \in Alloc is the address of the   *)
(* whole object a, and MaxAlloc + a is the address of a sub-object (a      *)
(* plain data member) of object a.                                         *)
(*                                                                         *)
(* The handles the caller holds are variables of the caller; their names   *)
(* play no part in any operation, so sp and wp are the bags (multisets) of *)
(* the live SharedPtr and WeakPtr values.  A moved-from or reset handle is *)
(* still a live handle, with both fields null.                             *)
(*                                                                         *)
(* Spec is the caller's program over SharedPtr and WeakPtr, SpecEq a       *)
(* raw-pointer handle run beside a MakeShared handle, SpecNode a program   *)
(* whose objects hold handles as data members, SpecIntr a program over     *)
(* IntrusivePtr (src/intrusive/intrusive.h) and SpecUniq one over          *)
(* UniquePtr (src/unique/unique.h).                                        *)
(***************************************************************************)
EXTENDS Integers, FiniteSets, Bags, TLC

\* ---------------------------------------------------------------- bounds
\* allocations the program makes; SharedPtr, WeakPtr and handles of both
\* kinds the caller holds at a time
MaxAlloc == 2
MaxStrong == 2
MaxWeak == 2
MaxHandles == 3

\* size_t arithmetic wraps (++ and -- are taken modulo the width of size_t);
\* the model keeps the wrap at a reduced width, far above every count the
\* handles below can produce
CounterMod == 65536

Alloc == 1..MaxAlloc
Ptrs == 0..(2 * MaxAlloc)

VARIABLES blocks, objs, sp, wp, fault, last

\* The objects with an embedded counter and the IntrusivePtr values the
\* caller holds (src/intrusive/intrusive.h); the pointers given to UniquePtr
\* and the UniquePtr values the caller holds (src/unique/unique.h).
VARIABLES rc, ip, un, up

vars == <<blocks, objs, sp, wp, fault, last, rc, ip, un, up>>

\* ------------------------------------------------------------- pointers
IsField(p) == p > MaxAlloc
Owner(p) == IF p > MaxAlloc THEN p - MaxAlloc ELSE p
FieldOf(a) == MaxAlloc + a

\* ------------------------------------------------------ record shapes
NoBlock == [st |-> "none", kind |-> "Ptr", strong |-> 0, weak |-> 0, ptr |-> 0, frees |-> 0]
\* next_block and back_block: the blocks referenced by the handles an object
\* holds as data members, a SharedPtr `next` and a WeakPtr `back` (0: empty)
NoObj == [st |-> "none", esft |-> FALSE, wt_block |-> 0, wt_ptr |-> 0, dtors |-> 0,
          next_block |-> 0, back_block |-> 0]
\* an object derived from RefCounted: its state and the counter count_ in it
NoCounted == [st |-> "none", count |-> 0, dtors |-> 0]
\* a pointer given to a UniquePtr: the times the deleter was invoked on it
\* and whether Release() returned it
NoOwned == [st |-> "none", deleted |-> 0, released |-> FALSE]
\* a SharedPtr<T> / WeakPtr<T> value; esft: T derives from EnableSharedFromThis
Handle(t, b, p) == [esft |-> t, block |-> b, ptr |-> p]
Empty(t) == Handle(t, 0, 0)

\* The heap part of the state, threaded through the callee operators.
Heap(b, o, f) == [b |-> b, o |-> o, f |-> f]

Fail(H, what) == [H EXCEPT !.f = what]

\* ------------------------------------------------ size_t ++ and --
Inc(x) == (x + 1) % CounterMod
Dec(x) == (x + CounterMod - 1) % CounterMod

\* ----------------------------------------------------- control block
\* `delete this`: the destructor zeroes the fields, the memory is released.
FreeBlock(H, b) ==
    [H EXCEPT !.b[b] = [@ EXCEPT !.st = "freed", !.strong = 0, !.weak = 0, !.ptr = 0,
                                  !.frees = @ + 1]]

\* IncreaseStrongCounter with the counters mixed up: ++weak_counter_.
IncreaseStrongCounterOnWeak(H, b) ==
    IF H.f # "none" THEN H
    ELSE IF H.b[b].st # "live" THEN Fail(H, "UseAfterFree")
    ELSE [H EXCEPT !.b[b].weak = Inc(@)]

\* Every member function reads and writes *this: a call on a block that is
\* not allocated touches freed memory (fault "UseAfterFree").
IncreaseStrongCounter(H, b) ==
    IF H.f # "none" THEN H
    ELSE IF H.b[b].st # "live" THEN Fail(H, "UseAfterFree")
    ELSE [H EXCEPT !.b[b].strong = Inc(@)]

IncreaseWeakCounter(H, b) ==
    IF H.f # "none" THEN H
    ELSE IF H.b[b].st # "live" THEN Fail(H, "UseAfterFree")
    ELSE [H EXCEPT !.b[b].weak = Inc(@)]

BruteDecreaseWeakCounter(H, b) ==
    IF H.f # "none" THEN H
    ELSE IF H.b[b].st # "live" THEN Fail(H, "UseAfterFree")
    ELSE [H EXCEPT !.b[b].weak = Dec(@)]

DecreaseWeakCounter(H, b) ==
    IF H.f # "none" THEN H
    ELSE IF H.b[b].st # "live" THEN Fail(H, "UseAfterFree")
    ELSE LET H1 == [H EXCEPT !.b[b].weak = Dec(@)]
         IN  IF H1.b[b].weak = 0 /\ H1.b[b].strong = 0 THEN FreeBlock(H1, b) ELSE H1

GetStrongCounter(H, b) == H.b[b].strong

\* ~EnableSharedFromThis that empties weak_this_ without a decrement.
TeardownWeakThisNoDecrease(H, o) ==
    IF H.o[o].wt_block = 0 THEN Fail(H, "NullDeref")
    ELSE [H EXCEPT !.o[o].wt_block = 0, !.o[o].wt_ptr = 0]

\* ~EnableSharedFromThis, then the member weak_this_ (already empty) dies.
TeardownWeakThis(H, o) ==
    IF H.o[o].wt_block = 0 THEN Fail(H, "NullDeref")
    ELSE LET H1 == BruteDecreaseWeakCounter(H, H.o[o].wt_block)
         IN  [H1 EXCEPT !.o[o].wt_block = 0, !.o[o].wt_ptr = 0]

RECURSIVE DecreaseStrongCounter(_, _)

\* The storage of object o is still allocated: an object made by MakeShared
\* lives in the buffer of its ObjectControlBlock and goes with the block.
StorageLive(H, o) == H.b[o].kind = "Obj" => H.b[o].st # "freed"

\* the member has been destroyed: its fields are set to null, in the storage
\* of the object
ClearBack(H, o) ==
    IF H.f # "none" THEN H
    ELSE IF ~StorageLive(H, o) THEN Fail(H, "UseAfterFree")
    ELSE [H EXCEPT !.o[o].back_block = 0]

ClearNext(H, o) ==
    IF H.f # "none" THEN H
    ELSE IF ~StorageLive(H, o) THEN Fail(H, "UseAfterFree")
    ELSE [H EXCEPT !.o[o].next_block = 0]

\* ~WeakPtr of the data member `back` of object o
DestroyBack(H, o) ==
    IF H.f # "none" THEN H
    ELSE IF H.o[o].back_block = 0 THEN H
    ELSE ClearBack(DecreaseWeakCounter(H, H.o[o].back_block), o)

\* ~SharedPtr of the data member `next` of object o
DestroyNext(H, o) ==
    IF H.f # "none" THEN H
    ELSE IF H.o[o].next_block = 0 THEN H
    ELSE ClearNext(DecreaseStrongCounter(H, H.o[o].next_block), o)

\* ~EnableSharedFromThis of an object that has this base
DestroyBase(H, o) ==
    IF H.f # "none" THEN H
    ELSE IF H.o[o].esft THEN TeardownWeakThis(H, o) ELSE H

\* the destructor has run to its end
Destroyed(H, o) ==
    IF H.f # "none" THEN H
    ELSE [H EXCEPT !.o[o].st = "dead", !.o[o].dtors = @ + 1]

\* The destructor of the managed object (delete control_ptr_ / buffer_ptr_->~T()):
\* the data members die in the reverse of their order, then the base
\* EnableSharedFromThis.
DestroyObject(H, o) ==
    IF H.f # "none" THEN H
    ELSE IF H.o[o].st # "alive" THEN Fail(H, "UseAfterFree")
    ELSE Destroyed(DestroyBase(DestroyNext(DestroyBack(H, o), o), o), o)

\* DecreaseStrongCounter after the object is gone: control_ptr_ = nullptr (or
\* buffer_ptr_), then `delete this` when no weak reference is left.  The
\* destructor of the object may have released the last weak reference and
\* with it the block: the write and the read then touch freed memory.
AfterObject(H, b) ==
    IF H.f # "none" THEN H
    ELSE IF H.b[b].st # "live" THEN Fail(H, "UseAfterFree")
    ELSE IF H.b[b].weak = 0 THEN FreeBlock([H EXCEPT !.b[b].ptr = 0], b)
    ELSE [H EXCEPT !.b[b].ptr = 0]

\* PtrControlBlock::DecreaseStrongCounter without `delete control_ptr_`.
PtrDecreaseStrongCounterNoDelete(H, b) ==
    LET H1 == [H EXCEPT !.b[b].strong = Dec(@)]
    IN  IF H1.b[b].strong # 0 THEN H1
        ELSE IF H1.b[b].weak = 0 THEN FreeBlock(H1, b) ELSE H1

\* PtrControlBlock: --strong_counter_; on 0 `delete control_ptr_` (a no-op on
\* nullptr), then free the block when no weak reference is left.
PtrDecreaseStrongCounter(H, b) ==
    LET H1 == [H EXCEPT !.b[b].strong = Dec(@)]
    IN  IF H1.b[b].strong # 0 THEN H1
        ELSE AfterObject(IF H1.b[b].ptr # 0 THEN DestroyObject(H1, H1.b[b].ptr) ELSE H1, b)

\* ObjectControlBlock::DecreaseStrongCounter that leaves the object to the
\* destructor of the block: it is destroyed only when the block is freed.
ObjDecreaseStrongCounterWithBlock(H, b) ==
    LET H1 == [H EXCEPT !.b[b].strong = Dec(@)]
    IN  IF H1.b[b].strong # 0 \/ H1.b[b].weak # 0 THEN H1
        ELSE LET H2 == IF H1.b[b].ptr = 0 THEN Fail(H1, "NullDeref")
                       ELSE DestroyObject(H1, H1.b[b].ptr)
             IN  IF H2.f # "none" THEN H2 ELSE FreeBlock(H2, b)

\* ObjectControlBlock: --strong_counter_; on 0 run buffer_ptr_->~T() in place,
\* then free the block (and the storage in it) when no weak reference is left.
ObjDecreaseStrongCounter(H, b) ==
    LET H1 == [H EXCEPT !.b[b].strong = Dec(@)]
    IN  IF H1.b[b].strong # 0 THEN H1
        ELSE AfterObject(IF H1.b[b].ptr = 0 THEN Fail(H1, "NullDeref")
                         ELSE DestroyObject(H1, H1.b[b].ptr), b)

\* The virtual call base_block_->DecreaseStrongCounter().
DecreaseStrongCounter(H, b) ==
    IF H.f # "none" THEN H
    ELSE IF H.b[b].st # "live" THEN Fail(H, "UseAfterFree")
    ELSE IF H.b[b].kind = "Ptr" THEN PtrDecreaseStrongCounter(H, b)
    ELSE ObjDecreaseStrongCounter(H, b)

\* ------------------------------------------------------------ handles
\* this->InitWeakThis(hp) on a SharedPtr with base_block_ = hb:
\*   e->weak_this_ = WeakPtr(*this);
\* the temporary takes a weak reference on hb, the move assignment releases
\* the block weak_this_ referenced before and takes over the temporary.
InitWeakThis(H, hb, hp) ==
    IF H.f # "none" THEN H
    ELSE LET H1 == IF hb # 0 THEN IncreaseWeakCounter(H, hb) ELSE H
         IN  IF H1.f # "none" THEN H1
             ELSE IF hp = 0 THEN Fail(H1, "NullDeref")
             ELSE IF H1.o[hp].st # "alive" THEN Fail(H1, "UseAfterFree")
             ELSE LET old == H1.o[hp].wt_block
                      H2  == IF old # 0 THEN DecreaseWeakCounter(H1, old) ELSE H1
                  IN  IF H2.f # "none" THEN H2
                      ELSE [H2 EXCEPT !.o[hp].wt_block = hb, !.o[hp].wt_ptr = hp]

H0 == Heap(blocks, objs, "none")

\* SharedPtr::UseCount and WeakPtr::UseCount / Expired, on a handle value.
UseCountOf(H, r) == IF r.block # 0 THEN GetStrongCounter(H, r.block) ELSE 0
UseCount(r) == UseCountOf(H0, r)
ExpiredOf(H, r) == UseCountOf(H, r) = 0
Expired(r) == ExpiredOf(H0, r)

\* SharedPtr(const SharedPtr&), SharedPtr(SharedPtr&&), ~SharedPtr / Reset(),
\* WeakPtr(const SharedPtr&) and ~WeakPtr as functions of the heap
CopyOf(H, o) ==
    LET H1 == IF o.block # 0 THEN IncreaseStrongCounter(H, o.block) ELSE H
    IN  IF o.esft THEN InitWeakThis(H1, o.block, o.ptr) ELSE H1
MoveOf(H, o) == IF o.esft THEN InitWeakThis(H, o.block, o.ptr) ELSE H
ReleaseOf(H, h) == IF h.block # 0 THEN DecreaseStrongCounter(H, h.block) ELSE H
WeakOf(H, h) == IF h.block # 0 THEN IncreaseWeakCounter(H, h.block) ELSE H
WeakReleaseOf(H, w) == IF w.block # 0 THEN DecreaseWeakCounter(H, w.block) ELSE H

\* Lock that tests base_block_ for null in place of Expired().
LockOfNullTest(H, r) ==
    IF r.block = 0
    THEN <<H, Empty(r.esft)>>
    ELSE <<IncreaseStrongCounter(H, r.block), Handle(r.esft, r.block, r.ptr)>>

\* Lock that hands out the block without IncreaseStrongCounter().
LockOfNoIncrease(H, r) ==
    IF ExpiredOf(H, r)
    THEN <<H, Empty(r.esft)>>
    ELSE <<H, Handle(r.esft, r.block, r.ptr)>>

\* WeakPtr::Lock on the weak handle r: <<heap, returned SharedPtr>>.
LockOf(H, r) ==
    IF ExpiredOf(H, r)
    THEN <<H, Empty(r.esft)>>
    ELSE <<IncreaseStrongCounter(H, r.block), Handle(r.esft, r.block, r.ptr)>>

\* The member weak_this_ of object o.
WeakThis(o) == Handle(TRUE, objs[o].wt_block, objs[o].wt_ptr)

\* --------------------------------------------------- bags of handles
Add(B, r) == B (+) SetToBag({r})
Del(B, r) == B (-) SetToBag({r})
\* the number of handles of B that reference block b
Refs(B, b) ==
    LET S == {r \in BagToSet(B) : r.block = b}
    IN  BagCardinality([r \in S |-> B[r]])
\* two different handles d and s of B
Distinct(B, d, s) == d # s \/ CopiesIn(d, B) >= 2

\* the caller has room for one more handle
CanAdd == BagCardinality(sp) + BagCardinality(wp) < MaxHandles
CanAddS == CanAdd /\ BagCardinality(sp) < MaxStrong
CanAddW == CanAdd /\ BagCardinality(wp) < MaxWeak
FreeA == {a \in Alloc : objs[a].st = "none" /\ blocks[a].st = "none"}
NewA == CHOOSE a \in FreeA : \A c \in FreeA : a <= c
\* objects the caller allocated and has not handed to a SharedPtr
Raw == {a \in Alloc : objs[a].st = "alive" /\ blocks[a].st = "none"}

NewPtrBlock(p) == [st |-> "live", kind |-> "Ptr", strong |-> 1, weak |-> 0, ptr |-> p, frees |-> 0]
NewObjBlock(p) == [st |-> "live", kind |-> "Obj", strong |-> 1, weak |-> 0, ptr |-> p, frees |-> 0]
NewObj(t) == [st |-> "alive", esft |-> t, wt_block |-> 0, wt_ptr |-> 0, dtors |-> 0,
              next_block |-> 0, back_block |-> 0]

\* The caller's side of the aliasing constructor: a pointer that a handle
\* observes without owning its object stays valid while the handle lives.
ForeignAlive(ob, S) ==
    \A r \in BagToSet(S) :
        (r.ptr # 0 /\ Owner(r.ptr) # r.block) => ob[Owner(r.ptr)].st = "alive"

\* What the last operation was: its name, its outcome, the block and the
\* pointer of the handle it was applied to and that block's strong count
\* before the operation.
Op(name, res, b, p, n) == [op |-> name, res |-> res, b |-> b, p |-> p, n |-> n]

\* The end of an operation.  A fault (a null dereference or a use of freed
\* memory) ends the program: the state is kept as it was when the operation
\* began and only the fault is recorded.
Commit(H, s2, w2, l) ==
    IF H.f # "none"
    THEN /\ fault' = H.f
         /\ last' = [l EXCEPT !.res = "fault"]
         /\ UNCHANGED <<blocks, objs, sp, wp, rc, ip, un, up>>
    ELSE /\ UNCHANGED <<rc, ip, un, up>>
         /\ ForeignAlive(H.o, s2)
         /\ blocks' = H.b
         /\ objs' = H.o
         /\ sp' = s2
         /\ wp' = w2
         /\ fault' = "none"
         /\ last' = l

\* ------------------------------------------------------------- Init
Init ==
    /\ blocks = [a \in Alloc |-> NoBlock]
    /\ objs = [a \in Alloc |-> NoObj]
    /\ sp = EmptyBag
    /\ wp = EmptyBag
    /\ fault = "none"
    /\ last = Op("Init", "ok", 0, 0, 0)
    /\ rc = [a \in Alloc |-> NoCounted]
    /\ ip = EmptyBag
    /\ un = [a \in Alloc |-> NoOwned]
    /\ up = EmptyBag

Running == fault = "none"

\* ------------------------------------------------- the caller's objects
\* new T, not yet given to a handle (t: T derives from EnableSharedFromThis)
NewObject(t) ==
    /\ Running /\ FreeA # {}
    /\ Commit(Heap(blocks, [objs EXCEPT ![NewA] = NewObj(t)], "none"), sp, wp,
              Op("NewObject", "ok", 0, 0, 0))

\* delete p on an object no handle ever managed
RawDelete(o) ==
    /\ Running /\ o \in Raw
    /\ Commit(DestroyObject(H0, o), sp, wp, Op("RawDelete", "ok", 0, o, 0))

\* ------------------------------------------------ SharedPtr constructors
\* SharedPtr()
SNew(t) ==
    /\ Running /\ CanAddS
    /\ Commit(H0, Add(sp, Empty(t)), wp, Op("SNew", "ok", 0, 0, 0))

\* explicit SharedPtr(Y* ptr), ptr the address of a raw object
SFromRaw(p) ==
    /\ Running /\ CanAddS /\ p \in Raw
    /\ LET H1 == Heap([blocks EXCEPT ![p] = NewPtrBlock(p)], objs, "none")
           H2 == IF objs[p].esft THEN InitWeakThis(H1, p, p) ELSE H1
       IN  Commit(H2, Add(sp, Handle(objs[p].esft, p, p)), wp, Op("SFromRaw", "ok", 0, 0, 0))

\* SharedPtr(Y*) that makes an empty handle of a null pointer.
SFromNullEmpty(t) ==
    /\ Running /\ CanAddS /\ FreeA # {}
    /\ Commit(H0, Add(sp, Empty(t)), wp, Op("SFromNull", "ok", 0, 0, 0))

\* explicit SharedPtr(Y* ptr) with ptr == nullptr
SFromNull(t) ==
    /\ Running /\ CanAddS /\ FreeA # {}
    /\ LET a  == NewA
           H1 == Heap([blocks EXCEPT ![a] = NewPtrBlock(0)], objs, "none")
           H2 == IF t THEN InitWeakThis(H1, a, 0) ELSE H1
       IN  Commit(H2, Add(sp, Handle(t, a, 0)), wp, Op("SFromNull", "ok", 0, 0, 0))

\* MakeShared<T>(args...)
MakeShared(t) ==
    /\ Running /\ CanAddS /\ FreeA # {}
    /\ LET a  == NewA
           H1 == Heap([blocks EXCEPT ![a] = NewObjBlock(a)],
                      [objs EXCEPT ![a] = NewObj(t)], "none")
           H2 == IF t THEN InitWeakThis(H1, a, a) ELSE H1
       IN  Commit(H2, Add(sp, Handle(t, a, a)), wp, Op("MakeShared", "ok", 0, 0, 0))

\* SharedPtr(const SharedPtr& other)
SCopy(o) ==
    /\ Running /\ CanAddS /\ BagIn(o, sp)
    /\ LET H1 == IF o.block # 0 THEN IncreaseStrongCounter(H0, o.block) ELSE H0
           H2 == IF o.esft THEN InitWeakThis(H1, o.block, o.ptr) ELSE H1
       IN  Commit(H2, Add(sp, o), wp, Op("SCopy", "ok", o.block, o.ptr, UseCount(o)))

\* SharedPtr(SharedPtr&&) that leaves the source as it was.
SMoveKeepingSource(o) ==
    /\ Running /\ CanAddS /\ BagIn(o, sp)
    /\ LET H1 == IF o.esft THEN InitWeakThis(H0, o.block, o.ptr) ELSE H0
       IN  Commit(H1, Add(sp, o), wp, Op("SMove", "ok", o.block, o.ptr, UseCount(o)))

\* SharedPtr(SharedPtr&& other)
SMove(o) ==
    /\ Running /\ CanAddS /\ BagIn(o, sp)
    /\ LET H1 == IF o.esft THEN InitWeakThis(H0, o.block, o.ptr) ELSE H0
       IN  Commit(H1, Add(Add(Del(sp, o), Empty(o.esft)), o), wp,
                  Op("SMove", "ok", o.block, o.ptr, UseCount(o)))

\* the pointers a caller can pass to the aliasing constructor, with the
\* element type T they give the new handle
\* (nullptr, a live object, or a data member of the object the source owns)
AliasArgs(o) ==
    {<<0, FALSE>>, <<0, TRUE>>}
        \cup {<<a, objs[a].esft>> : a \in {c \in Alloc : objs[c].st = "alive"}}
        \cup {<<FieldOf(a), FALSE>> : a \in {c \in Alloc : c = o.block /\ objs[c].st = "alive"}}

\* The aliasing constructor without IncreaseStrongCounter().
SAliasNoIncrease(o, p, t) ==
    /\ Running /\ CanAddS /\ BagIn(o, sp) /\ <<p, t>> \in AliasArgs(o)
    /\ LET H2 == IF t THEN InitWeakThis(H0, o.block, p) ELSE H0
       IN  Commit(H2, Add(sp, Handle(t, o.block, p)), wp,
                  Op("SAlias", "ok", o.block, p, UseCount(o)))

\* SharedPtr(const SharedPtr<Y>& other, T* ptr)
SAlias(o, p, t) ==
    /\ Running /\ CanAddS /\ BagIn(o, sp) /\ <<p, t>> \in AliasArgs(o)
    /\ LET H1 == IF o.block # 0 THEN IncreaseStrongCounter(H0, o.block) ELSE H0
           H2 == IF t THEN InitWeakThis(H1, o.block, p) ELSE H1
       IN  Commit(H2, Add(sp, Handle(t, o.block, p)), wp,
                  Op("SAlias", "ok", o.block, p, UseCount(o)))

\* The promoting constructor without the Expired() test.
SPromoteNoThrow(o) ==
    /\ Running /\ CanAddS /\ BagIn(o, wp)
    /\ Commit(IF o.block # 0 THEN IncreaseStrongCounter(H0, o.block) ELSE H0,
              Add(sp, Handle(o.esft, o.block, o.ptr)), wp,
              Op("SPromote", "ok", o.block, o.ptr, UseCount(o)))

\* explicit SharedPtr(const WeakPtr<T>& other): throws BadWeakPtr when expired
SPromote(o) ==
    /\ Running /\ CanAddS /\ BagIn(o, wp)
    /\ IF Expired(o)
       THEN Commit(H0, sp, wp, Op("SPromote", "BadWeakPtr", o.block, o.ptr, UseCount(o)))
       ELSE Commit(IF o.block # 0 THEN IncreaseStrongCounter(H0, o.block) ELSE H0,
                   Add(sp, Handle(o.esft, o.block, o.ptr)), wp,
                   Op("SPromote", "ok", o.block, o.ptr, UseCount(o)))

\* ------------------------------------------------- SharedPtr operator=
\* SharedPtr& operator=(const SharedPtr& other); self: this == &other
SAssign(d, o, self) ==
    /\ Running /\ BagIn(d, sp) /\ BagIn(o, sp) /\ d.esft = o.esft
    /\ IF self
       THEN d = o /\ Commit(H0, sp, wp, Op("SAssign", "self", 0, 0, 0))
       ELSE /\ Distinct(sp, d, o)
            /\ LET H1 == IF d.block # 0 THEN DecreaseStrongCounter(H0, d.block) ELSE H0
                   H2 == IF o.block # 0 THEN IncreaseStrongCounter(H1, o.block) ELSE H1
               IN  Commit(H2, Add(Del(sp, d), Handle(d.esft, o.block, o.ptr)), wp,
                          Op("SAssign", "ok", 0, 0, 0))

\* SharedPtr& operator=(SharedPtr&& other); self: this == &other
SMoveAssign(d, o, self) ==
    /\ Running /\ BagIn(d, sp) /\ BagIn(o, sp) /\ d.esft = o.esft
    /\ IF self
       THEN d = o /\ Commit(H0, sp, wp, Op("SMoveAssign", "self", 0, 0, 0))
       ELSE /\ Distinct(sp, d, o)
            /\ LET H1 == IF d.block # 0 THEN DecreaseStrongCounter(H0, d.block) ELSE H0
               IN  Commit(H1, Add(Add(Del(Del(sp, d), o), Handle(d.esft, o.block, o.ptr)),
                                  Empty(o.esft)),
                          wp, Op("SMoveAssign", "ok", 0, 0, 0))

\* ------------------------------------------ SharedPtr destructor, modifiers
\* ~SharedPtr()
SDestroy(h) ==
    /\ Running /\ BagIn(h, sp)
    /\ Commit(IF h.block # 0 THEN DecreaseStrongCounter(H0, h.block) ELSE H0,
              Del(sp, h), wp, Op("SDestroy", "ok", h.block, h.ptr, UseCount(h)))

\* void Reset()
SReset(h) ==
    /\ Running /\ BagIn(h, sp)
    /\ Commit(IF h.block # 0 THEN DecreaseStrongCounter(H0, h.block) ELSE H0,
              Add(Del(sp, h), Empty(h.esft)), wp, Op("SReset", "ok", 0, 0, 0))

\* Reset(Y*) that lets go of the old block without DecreaseStrongCounter().
SResetPtrNoRelease(h, p) ==
    /\ Running /\ BagIn(h, sp) /\ p \in Raw /\ objs[p].esft = h.esft
    /\ Commit(Heap([blocks EXCEPT ![p] = NewPtrBlock(p)], objs, "none"),
              Add(Del(sp, h), Handle(h.esft, p, p)), wp, Op("SResetPtr", "ok", 0, 0, 0))

\* void Reset(Y* ptr), ptr the address of a raw object
SResetPtr(h, p) ==
    /\ Running /\ BagIn(h, sp) /\ p \in Raw /\ objs[p].esft = h.esft
    /\ LET H1 == IF h.block # 0 THEN DecreaseStrongCounter(H0, h.block) ELSE H0
           H2 == IF H1.f # "none" THEN H1 ELSE [H1 EXCEPT !.b[p] = NewPtrBlock(p)]
       IN  Commit(H2, Add(Del(sp, h), Handle(h.esft, p, p)), wp,
                  Op("SResetPtr", "ok", 0, 0, 0))

\* void Swap(SharedPtr& other): the two handles exchange their values
SSwap(h, g) ==
    /\ Running /\ BagIn(h, sp) /\ BagIn(g, sp) /\ h.esft = g.esft /\ Distinct(sp, h, g)
    /\ Commit(H0, Add(Add(Del(Del(sp, h), g), g), h), wp, Op("SSwap", "ok", 0, 0, 0))

\* ------------------------------------------------------------ WeakPtr
\* WeakPtr()
WNew(t) ==
    /\ Running /\ CanAddW
    /\ Commit(H0, sp, Add(wp, Empty(t)), Op("WNew", "ok", 0, 0, 0))

\* WeakPtr(const WeakPtr& other)
WCopy(o) ==
    /\ Running /\ CanAddW /\ BagIn(o, wp)
    /\ Commit(IF o.block # 0 THEN IncreaseWeakCounter(H0, o.block) ELSE H0,
              sp, Add(wp, o), Op("WCopy", "ok", 0, 0, 0))

\* WeakPtr(WeakPtr&& other)
WMove(o) ==
    /\ Running /\ CanAddW /\ BagIn(o, wp)
    /\ Commit(H0, sp, Add(Add(Del(wp, o), Empty(o.esft)), o), Op("WMove", "ok", 0, 0, 0))

\* WeakPtr(const SharedPtr<T>&) that counts itself as a strong reference.
WFromSharedCountingStrong(h) ==
    /\ Running /\ CanAddW /\ BagIn(h, sp)
    /\ Commit(IF h.block # 0 THEN IncreaseStrongCounter(H0, h.block) ELSE H0,
              sp, Add(wp, h), Op("WFromShared", "ok", h.block, h.ptr, UseCount(h)))

\* WeakPtr(const SharedPtr<T>& other)
WFromShared(h) ==
    /\ Running /\ CanAddW /\ BagIn(h, sp)
    /\ Commit(IF h.block # 0 THEN IncreaseWeakCounter(H0, h.block) ELSE H0,
              sp, Add(wp, h), Op("WFromShared", "ok", h.block, h.ptr, UseCount(h)))

\* WeakPtr& operator=(const SharedPtr<Y>& other)
WAssignShared(w, h) ==
    /\ Running /\ BagIn(w, wp) /\ BagIn(h, sp) /\ w.esft = h.esft
    /\ LET H1 == IF w.block # 0 THEN DecreaseWeakCounter(H0, w.block) ELSE H0
           H2 == IF h.block # 0 THEN IncreaseWeakCounter(H1, h.block) ELSE H1
       IN  Commit(H2, sp, Add(Del(wp, w), h), Op("WAssignShared", "ok", 0, 0, 0))

\* WeakPtr& operator=(const WeakPtr& other); self: this == &other
WAssign(d, o, self) ==
    /\ Running /\ BagIn(d, wp) /\ BagIn(o, wp) /\ d.esft = o.esft
    /\ IF self
       THEN d = o /\ Commit(H0, sp, wp, Op("WAssign", "self", 0, 0, 0))
       ELSE /\ Distinct(wp, d, o)
            /\ LET H1 == IF d.block # 0 THEN DecreaseWeakCounter(H0, d.block) ELSE H0
                   H2 == IF o.block # 0 THEN IncreaseWeakCounter(H1, o.block) ELSE H1
               IN  Commit(H2, sp, Add(Del(wp, d), o), Op("WAssign", "ok", 0, 0, 0))

\* WeakPtr& operator=(WeakPtr&& other); self: this == &other
WMoveAssign(d, o, self) ==
    /\ Running /\ BagIn(d, wp) /\ BagIn(o, wp) /\ d.esft = o.esft
    /\ IF self
       THEN d = o /\ Commit(H0, sp, wp, Op("WMoveAssign", "self", 0, 0, 0))
       ELSE /\ Distinct(wp, d, o)
            /\ LET H1 == IF d.block # 0 THEN DecreaseWeakCounter(H0, d.block) ELSE H0
               IN  Commit(H1, sp, Add(Add(Del(Del(wp, d), o), o), Empty(o.esft)),
                          Op("WMoveAssign", "ok", 0, 0, 0))

\* ~WeakPtr()
WDestroy(w) ==
    /\ Running /\ BagIn(w, wp)
    /\ Commit(IF w.block # 0 THEN DecreaseWeakCounter(H0, w.block) ELSE H0,
              sp, Del(wp, w), Op("WDestroy", "ok", 0, 0, 0))

\* void Reset()
WReset(w) ==
    /\ Running /\ BagIn(w, wp)
    /\ Commit(IF w.block # 0 THEN DecreaseWeakCounter(H0, w.block) ELSE H0,
              sp, Add(Del(wp, w), Empty(w.esft)), Op("WReset", "ok", 0, 0, 0))

\* void Swap(WeakPtr& other): the two handles exchange their values
WSwap(w, v) ==
    /\ Running /\ BagIn(w, wp) /\ BagIn(v, wp) /\ w.esft = v.esft /\ Distinct(wp, w, v)
    /\ Commit(H0, sp, Add(Add(Del(Del(wp, w), v), v), w), Op("WSwap", "ok", 0, 0, 0))

\* SharedPtr<T> Lock() const; the returned handle is built in place
Lock(w) ==
    /\ Running /\ CanAddS /\ BagIn(w, wp)
    /\ LET r == LockOf(H0, w)
       IN  Commit(r[1], Add(sp, r[2]), wp,
                  Op("Lock", IF Expired(w) THEN "empty" ELSE "locked",
                     w.block, w.ptr, UseCount(w)))

\* ----------------------------------------------- EnableSharedFromThis
\* SharedFromThis through the promoting constructor, SharedPtr<T>(weak_this_),
\* which throws BadWeakPtr on an expired weak_this_.
SharedFromThisPromoting(o) ==
    /\ Running /\ CanAddS /\ objs[o].st = "alive" /\ objs[o].esft
    /\ IF Expired(WeakThis(o))
       THEN Commit(H0, sp, wp,
                   Op("SharedFromThis", "BadWeakPtr", objs[o].wt_block, o, UseCount(WeakThis(o))))
       ELSE Commit(IncreaseStrongCounter(H0, objs[o].wt_block), Add(sp, WeakThis(o)), wp,
                   Op("SharedFromThis", "locked", objs[o].wt_block, o, UseCount(WeakThis(o))))

\* SharedPtr<T> SharedFromThis(), called on the live object o
SharedFromThis(o) ==
    /\ Running /\ CanAddS /\ objs[o].st = "alive" /\ objs[o].esft
    /\ LET r == LockOf(H0, WeakThis(o))
       IN  Commit(r[1], Add(sp, r[2]), wp,
                  Op("SharedFromThis", IF Expired(WeakThis(o)) THEN "empty" ELSE "locked",
                     objs[o].wt_block, o, UseCount(WeakThis(o))))

\* WeakPtr<T> WeakFromThis() noexcept: a copy of weak_this_
WeakFromThis(o) ==
    /\ Running /\ CanAddW /\ objs[o].st = "alive" /\ objs[o].esft
    /\ Commit(IF objs[o].wt_block # 0 THEN IncreaseWeakCounter(H0, objs[o].wt_block) ELSE H0,
              sp, Add(wp, WeakThis(o)), Op("WeakFromThis", "ok", objs[o].wt_block, o, 0))

\* ------------------------------------------------------------- Next
Next ==
    \/ \E t \in BOOLEAN : NewObject(t)
    \/ \E o \in Alloc : RawDelete(o)
    \/ \E t \in BOOLEAN : SNew(t)
    \/ \E p \in Alloc : SFromRaw(p)
    \/ \E t \in BOOLEAN : SFromNull(t)
    \/ \E t \in BOOLEAN : MakeShared(t)
    \/ \E h \in BagToSet(sp) : SCopy(h)
    \/ \E h \in BagToSet(sp) : SMove(h)
    \/ \E h \in BagToSet(sp), p \in Ptrs, t \in BOOLEAN : SAlias(h, p, t)
    \/ \E w \in BagToSet(wp) : SPromote(w)
    \/ \E h, g \in BagToSet(sp), self \in BOOLEAN : SAssign(h, g, self)
    \/ \E h, g \in BagToSet(sp), self \in BOOLEAN : SMoveAssign(h, g, self)
    \/ \E h \in BagToSet(sp) : SDestroy(h)
    \/ \E h \in BagToSet(sp) : SReset(h)
    \/ \E h \in BagToSet(sp), p \in Alloc : SResetPtr(h, p)
    \/ \E h, g \in BagToSet(sp) : SSwap(h, g)
    \/ \E t \in BOOLEAN : WNew(t)
    \/ \E w \in BagToSet(wp) : WCopy(w)
    \/ \E w \in BagToSet(wp) : WMove(w)
    \/ \E h \in BagToSet(sp) : WFromShared(h)
    \/ \E w \in BagToSet(wp), h \in BagToSet(sp) : WAssignShared(w, h)
    \/ \E w, v \in BagToSet(wp), self \in BOOLEAN : WAssign(w, v, self)
    \/ \E w, v \in BagToSet(wp), self \in BOOLEAN : WMoveAssign(w, v, self)
    \/ \E w \in BagToSet(wp) : WDestroy(w)
    \/ \E w \in BagToSet(wp) : WReset(w)
    \/ \E w, v \in BagToSet(wp) : WSwap(w, v)
    \/ \E w \in BagToSet(wp) : Lock(w)
    \/ \E o \in Alloc : SharedFromThis(o)
    \/ \E o \in Alloc : WeakFromThis(o)

Spec == Init /\ [][Next]_vars

\* ------------------------------------------------------------ typing
TypeOK ==
    /\ \A a \in Alloc : blocks[a].st \in {"none", "live", "freed"}
    /\ \A a \in Alloc : blocks[a].strong \in 0..MaxHandles
    /\ \A a \in Alloc : blocks[a].weak \in 0..(MaxHandles + MaxAlloc)
    /\ \A a \in Alloc : blocks[a].frees \in 0..1
    /\ IsABag(sp) /\ IsABag(wp)
    /\ BagCardinality(sp) + BagCardinality(wp) <= MaxHandles
    /\ BagCardinality(sp) <= MaxStrong /\ BagCardinality(wp) <= MaxWeak
    /\ \A r \in BagToSet(sp) \cup BagToSet(wp) : r.block \in 0..MaxAlloc /\ r.ptr \in Ptrs
    /\ fault \in {"none", "NullDeref", "UseAfterFree", "DanglingRead"}

\* =================================================================
\* Claims
\* =================================================================
\* the strong handles that reference the block of allocation a
StrongRefs(a) == Refs(sp, a)
\* block a was created for a managed object (not for nullptr)
Owns(a) == blocks[a].st # "none" /\ objs[a].st # "none"
\* no strong owner is left for the block a weak handle w observes
Gone(w) == w.block = 0 \/ blocks[w.block].strong = 0
\* the last operation ran to its end on a handle with block b and pointer p
Did(l, name, b, p) == l.op = name /\ l.b = b /\ l.p = p /\ l.res # "fault"

\* C1: in every state the program reaches, UseCount() of every non-empty
\* Strong Handle equals the number of live Strong Handles that reference the
\* same control block, which is allocated; UseCount() of an empty handle is 0.
\* (An operation that faults ends the program: no state follows it.)
C1_UseCountIsLiveHandles ==
    \A r \in BagToSet(sp) :
        IF r.block = 0 THEN UseCount(r) = 0
        ELSE blocks[r.block].st = "live" /\ UseCount(r) = StrongRefs(r.block)

C1_Witness ==
    /\ last.op = "SAssign" /\ last.res = "ok"
    /\ \E r \in BagToSet(sp) : r.block # 0 /\ UseCount(r) = 2

C3_ZeroCountsMeanDestroyedAndFreed ==
    \A a \in Alloc :
        blocks[a].st = "live" =>
            /\ blocks[a].strong = 0 => (blocks[a].ptr = 0 /\ objs[a].st # "alive")
            /\ ~(blocks[a].strong = 0 /\ blocks[a].weak = 0)

\* The state part of C4: a Weak Handle's block stays allocated, and Expired()
\* is false exactly while a Strong Handle shares the block (an empty Weak
\* Handle is expired).
C4_ExpiredState ==
    \A w \in BagToSet(wp) :
        /\ w.block # 0 => blocks[w.block].st = "live"
        /\ Expired(w) <=> (w.block = 0 \/ StrongRefs(w.block) = 0)

\* The step part of C4: an expired Weak Handle stays expired; Lock() on an
\* expired Weak Handle returns an empty Strong Handle and changes no counter.
C4_ExpiredStep ==
    /\ \A w \in BagToSet(wp) :
           (w \in BagToSet(wp') /\ Gone(w)) => (w.block = 0 \/ blocks'[w.block].strong = 0)
    /\ \A w \in BagToSet(wp) :
           (Gone(w) /\ Did(last', "Lock", w.block, w.ptr)) =>
               /\ \E t \in BOOLEAN : sp' = Add(sp, Empty(t))
               /\ blocks' = blocks /\ objs' = objs /\ wp' = wp /\ fault' = "none"

\* C4: in every state Expired() of a Weak Handle is false exactly while a
\* Strong Handle shares its block, and at every step an expired Weak Handle
\* stays expired and Lock() on it returns an empty Strong Handle and changes
\* no counter.
C4_ExpiredIffNoStrongHandle == []C4_ExpiredState /\ [][C4_ExpiredStep]_vars

C4_Witness ==
    /\ last.op = "Lock" /\ last.res = "empty" /\ last.b # 0
    /\ \E w \in BagToSet(wp) : w.block = last.b /\ Expired(w)

\* One step of C5: what Lock() on a Weak Handle that is not expired changes,
\* and what destroying the returned handle right after changes.
C5_LockStep ==
    /\ \A w \in BagToSet(wp) :
           (~Gone(w) /\ Did(last', "Lock", w.block, w.ptr)) =>
               /\ blocks' = [blocks EXCEPT ![w.block].strong = @ + 1]
               /\ last'.n = blocks[w.block].strong
               /\ \E t \in BOOLEAN : sp' = Add(sp, Handle(t, w.block, w.ptr))
               /\ objs' = objs /\ wp' = wp /\ fault' = "none"
    /\ (last.op = "Lock" /\ last.res = "locked" /\ Did(last', "SDestroy", last.b, last.p)) =>
           /\ blocks' = [blocks EXCEPT ![last.b].strong = last.n]
           /\ objs' = objs

\* C5: Lock() on a Weak Handle that is not expired adds one to the strong
\* count of its block and nothing else (the weak count stays), and returns a
\* Strong Handle with the block and the pointer of the Weak Handle; destroying
\* the returned handle next brings the strong count back to what it was.
C5_LockAddsOneStrong == [][C5_LockStep]_vars

C5_Witness ==
    /\ last.op = "Lock" /\ last.res = "locked" /\ last.b # 0 /\ last.n >= 1
    /\ blocks[last.b].strong = last.n + 1 /\ blocks[last.b].weak >= 1
    /\ \E w \in BagToSet(wp) : w.block = last.b /\ w.ptr = last.p
    /\ \E r \in BagToSet(sp) : r.block = last.b /\ r.ptr = last.p

\* One step of C6: the promoting constructor on an expired and on a live
\* Weak Handle.
C6_PromoteStep ==
    \A w \in BagToSet(wp) :
        Did(last', "SPromote", w.block, w.ptr) =>
            IF Gone(w)
            THEN /\ last'.res = "BadWeakPtr"
                 /\ UNCHANGED <<blocks, objs, sp, wp, fault>>
            ELSE /\ last'.res = "ok"
                 /\ blocks' = [blocks EXCEPT ![w.block].strong = @ + 1]
                 /\ \E t \in BOOLEAN : sp' = Add(sp, Handle(t, w.block, w.ptr))
                 /\ objs' = objs /\ wp' = wp /\ fault' = "none"

\* C6: constructing a Strong Handle from a Weak Handle that is expired or
\* empty throws BadWeakPtr and changes no counter of any block; from a Weak
\* Handle that is not expired it adds one to the strong count and copies
\* block and pointer.
C6_PromoteThrowsWhenExpired == [][C6_PromoteStep]_vars

C6_Witness ==
    /\ last.op = "SPromote" /\ last.res = "BadWeakPtr" /\ last.b # 0
    /\ blocks[last.b].st = "live" /\ blocks[last.b].strong = 0

\* The state part of C7: the object a block manages is alive while a handle
\* that observes another pointer references the block.
C7_AliasState ==
    \A r \in BagToSet(sp) :
        (r.block # 0 /\ r.ptr # r.block /\ Owns(r.block)) =>
            (objs[r.block].st = "alive" /\ blocks[r.block].st = "live")

\* The step part of C7: what the aliasing constructor changes.
C7_AliasStep ==
    \A o \in BagToSet(sp) :
        (o.block # 0 /\ Did(last', "SAlias", o.block, last'.p) /\ last'.p # 0) =>
            /\ blocks'[o.block].strong = blocks[o.block].strong + 1
            /\ \E t \in BOOLEAN : sp' = Add(sp, Handle(t, o.block, last'.p))

\* C7: the aliasing constructor on a non-empty source and a non-null pointer
\* adds one to the strong count of the source's block and yields a handle
\* with that block whose Get() is the pointer supplied; the object the block
\* manages stays alive as long as an aliasing handle references the block,
\* whatever happens to the other Strong Handles.
C7_AliasKeepsObjectAlive == []C7_AliasState /\ [][C7_AliasStep]_vars

C7_Witness ==
    /\ last.op = "SDestroy" /\ last.res = "ok" /\ last.b # 0 /\ last.p = last.b
    /\ StrongRefs(last.b) = 1 /\ objs[last.b].st = "alive"
    /\ \E r \in BagToSet(sp) : r.block = last.b /\ r.ptr = FieldOf(last.b)

\* One step of C8: SharedFromThis() on a managed object, and the destruction
\* of the handle it returned.
C8_SharedFromThisStep ==
    /\ \A o \in Alloc :
           (/\ objs[o].st = "alive" /\ objs[o].esft
            /\ blocks[o].st = "live" /\ blocks[o].strong >= 1
            /\ last'.op = "SharedFromThis" /\ last'.p = o) =>
               /\ last'.res = "locked"
               /\ blocks'[o].strong = blocks[o].strong + 1
               /\ sp' = Add(sp, Handle(TRUE, o, o))
    /\ (last.op = "SharedFromThis" /\ last.res = "locked"
            /\ Did(last', "SDestroy", last.b, last.p)) =>
           /\ blocks'[last.b].strong = last.n
           /\ objs'[last.p].st = "alive"

\* C8 (as claimed): SharedFromThis() on a live object that supports
\* Self-Observation and whose block has use count n >= 1 returns a Strong
\* Handle on that block and makes the use count n + 1; destroying the handle
\* next makes it n again and leaves the object alive.
C8_SharedFromThisAddsOne == [][C8_SharedFromThisStep]_vars

\* The Uninitialized state: no Strong Handle ever managed the object and its
\* weak_this_ holds no block.
Uninitialized(o) ==
    objs[o].st = "alive" /\ objs[o].esft /\ blocks[o].st = "none" /\ objs[o].wt_block = 0

\* One step of C9: SharedFromThis() and WeakFromThis() on such an object.
C9_UnboundStep ==
    \A o \in Alloc :
        Uninitialized(o) =>
            /\ (last'.op = "SharedFromThis" /\ last'.p = o) =>
                   /\ last'.res = "empty"
                   /\ sp' = Add(sp, Empty(TRUE))
                   /\ UNCHANGED <<blocks, objs, wp, fault>>
            /\ (last'.op = "WeakFromThis" /\ last'.p = o) =>
                   /\ last'.res = "ok"
                   /\ \E w \in BagToSet(wp') :
                          w.block = 0 /\ wp' = Add(wp, w) /\ ExpiredOf(Heap(blocks', objs', fault'), w)
                   /\ UNCHANGED <<blocks, objs, sp, fault>>

\* C9: on an object in the Uninitialized state SharedFromThis() returns an
\* empty Strong Handle and WeakFromThis() an empty (expired) Weak Handle;
\* neither faults nor changes a counter.
C9_UnboundYieldsEmpty == [][C9_UnboundStep]_vars

C9_Witness ==
    /\ last.op = "SharedFromThis" /\ last.res = "empty"
    /\ objs[last.p].st = "alive" /\ blocks[last.p].st = "none" /\ objs[last.p].wt_block = 0
    /\ BagIn(Empty(TRUE), sp)

\* One step of C10: a binding construction on an object already bound.
C10_BindStep ==
    \A o \in Alloc :
        (/\ objs[o].st = "alive" /\ objs[o].esft /\ objs[o].wt_block # 0
         /\ last'.op \in {"SCopy", "SMove", "SAlias"} /\ last'.res = "ok" /\ last'.p = o) =>
            /\ objs'[o].wt_block = objs[o].wt_block
            /\ blocks'[objs[o].wt_block].weak = blocks[objs[o].wt_block].weak

\* C10 (as claimed): once the weak_this_ of an object holds a control block,
\* a copy, move or aliasing construction of a Strong Handle to that object
\* leaves it on that block and leaves the weak count of that block as it was.
C10_BoundOnce == [][C10_BindStep]_vars

\* the object of allocation a is Bound to the block that owns it
Bound(a) ==
    /\ Owns(a) /\ blocks[a].st = "live" /\ blocks[a].ptr = a
    /\ objs[a].st = "alive" /\ objs[a].esft /\ objs[a].wt_block = a

\* the external Weak Handles that reference the block of allocation a
WeakRefs(a) == Refs(wp, a)

\* One step of C11: the release of the last Strong Handle to a Bound object,
\* and the release of the last Weak Handle of a block without strong owner.
C11_TeardownStep ==
    \A a \in Alloc :
        /\ (Bound(a) /\ StrongRefs(a) >= 1 /\ Refs(sp', a) = 0) =>
               /\ fault' = "none"
               /\ objs'[a].st = "dead" /\ objs'[a].dtors = 1 /\ objs'[a].wt_block = 0
               /\ IF WeakRefs(a) = 0
                  THEN blocks'[a].st = "freed" /\ blocks'[a].frees = 1
                  ELSE /\ blocks'[a].st = "live" /\ blocks'[a].frees = 0
                       /\ blocks'[a].strong = 0 /\ blocks'[a].weak = WeakRefs(a)
        /\ (Bound(a) /\ last'.op = "SDestroy" /\ last'.b = a /\ last'.n = 1) =>
               last'.res = "ok"
        /\ (blocks[a].st = "live" /\ blocks[a].strong = 0 /\ objs[a].esft
                /\ WeakRefs(a) >= 1 /\ fault' = "none") =>
               IF Refs(wp', a) = 0
               THEN blocks'[a].st = "freed" /\ blocks'[a].frees = 1
               ELSE blocks'[a].st = "live" /\ blocks'[a].frees = 0

\* C11 (as claimed): when the last Strong Handle to a Bound object is released,
\* the teardown of the object gives up the internal weak edge by a plain
\* decrement that frees nothing, and the block is freed exactly once: in that
\* same step when no external Weak Handle references it, otherwise in the step
\* that releases the last external Weak Handle.
C11_BlockFreedOnceAfterTeardown ==
    [](\A a \in Alloc : blocks[a].frees <= 1) /\ [][C11_TeardownStep]_vars

\* the heap of the next state
HNext == Heap(blocks', objs', fault')

\* One step of C13: Reset(Y*) on a handle h with a new object p.
C13_ResetStep ==
    (last'.op = "SResetPtr" /\ last'.res = "ok") =>
        \E h \in BagToSet(sp), p \in Raw :
            LET R == ReleaseOf(H0, h)
            IN  /\ R.f = "none"
                /\ sp' = Add(Del(sp, h), Handle(h.esft, p, p))
                /\ blocks'[p].st = "live" /\ blocks'[p].ptr = p
                /\ blocks'[p].strong = 1 /\ blocks'[p].weak = 0
                /\ \A a \in Alloc \ {p} : blocks'[a] = R.b[a]
                /\ objs' = R.o
                /\ h.block # 0 =>
                       IF blocks[h.block].strong = 1
                       THEN /\ blocks'[h.block].strong = 0
                            /\ blocks[h.block].ptr # 0 => objs'[blocks[h.block].ptr].st = "dead"
                       ELSE /\ blocks'[h.block].strong = blocks[h.block].strong - 1
                            /\ objs' = objs
                /\ wp' = wp
                /\ \A w \in BagToSet(wp) :
                       /\ w.block # p
                       /\ UseCountOf(HNext, w) = UseCountOf(R, w)
                       /\ (w.block # 0 /\ w.block = h.block) =>
                              /\ blocks'[w.block].st = "live"
                              /\ ExpiredOf(HNext, w) <=> blocks[h.block].strong = 1

\* C13: Reset(Y*) releases the block the handle had exactly as the destructor
\* of the handle would (one decrement of the strong count, the object
\* destroyed when it reaches 0) and attaches the handle to a new block with
\* strong count 1 and weak count 0; every Weak Handle stays on the block it
\* had, is expired once the strong count of that block is 0, and what it
\* reports does not depend on the new block.
C13_ResetPtrReleasesAndAttachesFresh == [][C13_ResetStep]_vars

C13_Witness ==
    /\ last.op = "SResetPtr" /\ last.res = "ok"
    /\ \E w \in BagToSet(wp), r \in BagToSet(sp) :
           /\ w.block # 0 /\ blocks[w.block].st = "live" /\ blocks[w.block].strong = 0
           /\ Expired(w) /\ objs[w.block].st = "dead"
           /\ r.block # 0 /\ r.block # w.block
           /\ blocks[r.block].strong = 1 /\ blocks[r.block].weak = 0

\* the strong and the weak count and the allocation state of every block, and
\* the life of every object, are what they were
CountsKept ==
    /\ \A a \in Alloc :
           /\ blocks'[a].st = blocks[a].st
           /\ blocks'[a].strong = blocks[a].strong
           /\ blocks'[a].weak = blocks[a].weak
    /\ \A a \in Alloc : objs'[a].st = objs[a].st

\* One step of C14: a move construction, and the destruction or Reset() of
\* an empty handle.
C14_MoveStep ==
    /\ last'.op = "SMove" =>
           /\ last'.res = "ok"
           /\ \E o \in BagToSet(sp) :
                  /\ o.block = last'.b /\ o.ptr = last'.p
                  /\ sp' = Add(Add(Del(sp, o), Empty(o.esft)), o)
           /\ wp' = wp /\ CountsKept
    /\ last'.op = "WMove" =>
           /\ last'.res = "ok"
           /\ \E o \in BagToSet(wp) : wp' = Add(Add(Del(wp, o), Empty(o.esft)), o)
           /\ sp' = sp /\ CountsKept
    /\ (last'.op = "SDestroy" /\ \E t \in BOOLEAN : sp = Add(sp', Empty(t))) =>
           last'.res = "ok" /\ CountsKept
    /\ (last'.op = "SReset" /\ sp' = sp) => last'.res = "ok" /\ CountsKept
    /\ (last'.op = "WDestroy" /\ \E t \in BOOLEAN : wp = Add(wp', Empty(t))) =>
           last'.res = "ok" /\ CountsKept
    /\ (last'.op = "WReset" /\ wp' = wp) => last'.res = "ok" /\ CountsKept

\* C14 (as claimed): move-constructing a Strong or a Weak Handle gives the
\* block and the pointer of the source to the new handle, leaves the source
\* empty and leaves the strong and the weak count of every block as they
\* were; destroying or resetting an empty (moved-from) handle changes no
\* counter.
C14_MoveTransfersWithoutCounting == [][C14_MoveStep]_vars

\* C15 (as claimed): every Strong Handle without a control block has a null
\* observed pointer, whichever constructor, assignment, Reset, Swap or move
\* produced it.
C15_NullBlockMeansNullPointer ==
    \A r \in BagToSet(sp) : r.block = 0 => r.ptr = 0

\* the operations that construct, assign, reset or destroy a Weak Handle
WeakOps ==
    {"WNew", "WCopy", "WMove", "WFromShared", "WAssignShared", "WAssign", "WMoveAssign",
     "WDestroy", "WReset", "WSwap", "WeakFromThis"}

\* One step of C16: an operation on Weak Handles; the release of the last
\* Strong Handle while Weak Handles exist; Lock() and the promoting constructor.
C16_WeakStep ==
    /\ last'.op \in WeakOps =>
           /\ last'.res # "fault"
           /\ sp' = sp
           /\ \A a \in Alloc :
                  /\ blocks'[a].strong = blocks[a].strong
                  /\ objs'[a].st = objs[a].st /\ objs'[a].dtors = objs[a].dtors
    /\ \A a \in Alloc :
           (/\ last'.op = "SDestroy" /\ last'.res = "ok" /\ last'.b = a /\ last'.n = 1
            /\ Owns(a) /\ blocks[a].ptr = a /\ WeakRefs(a) >= 1) =>
               objs'[a].st = "dead" /\ blocks'[a].st = "live" /\ blocks'[a].strong = 0
    /\ (last'.op \in {"Lock", "SPromote"} /\ last'.res \in {"locked", "ok"}) =>
           blocks'[last'.b].strong = blocks[last'.b].strong + 1

\* C16: making a Weak Handle from a Strong Handle, and copying, moving,
\* assigning, resetting or destroying Weak Handles, changes the strong count
\* of no control block and neither destroys an object nor keeps one alive
\* after its last Strong Handle is gone; Lock() and the promoting constructor
\* are the operations on a Weak Handle that change a strong count.
C16_WeakOpsLeaveStrongCount == [][C16_WeakStep]_vars

C16_Witness ==
    /\ last.op = "WDestroy" /\ last.res = "ok"
    /\ \E a \in Alloc :
           /\ blocks[a].st = "freed" /\ objs[a].st = "dead" /\ objs[a].dtors = 1
           /\ StrongRefs(a) = 0 /\ WeakRefs(a) = 0

\* the objects whose weak_this_ references the block of allocation a
EdgesOn(a) == {o \in Alloc : objs[o].st = "alive" /\ objs[o].wt_block = a}

\* C17 (as claimed): the weak count of every allocated control block is the
\* number of live Weak Handles that reference it; the internal weak edge of
\* an object is not counted.
C17_WeakCountIsWeakHandles ==
    \A a \in Alloc : blocks[a].st = "live" => blocks[a].weak = WeakRefs(a)

\* C17 (amended): the weak count of every allocated control block is the
\* number of live Weak Handles that reference it plus the number of live
\* objects whose weak_this_ is bound to it.
C17_WeakCountIsHandlesAndEdges ==
    \A a \in Alloc :
        blocks[a].st = "live" => blocks[a].weak = WeakRefs(a) + Cardinality(EdgesOn(a))

C17_Witness ==
    \E a \in Alloc :
        /\ blocks[a].st = "live" /\ Bound(a) /\ WeakRefs(a) = 1 /\ blocks[a].weak = 2
        /\ last.op = "WFromShared" /\ last.b = a

\* a counter went from c to d without a decrement at 0: it fell by one from
\* a positive value, stayed, or rose by one (a decrement at 0 wraps to the
\* largest value of the counter)
CountedStep(c, d) == d = c \/ d = c + 1 \/ (c >= 1 /\ d = c - 1)

\* The state part of C18: no counter holds a wrapped value.
C18_CountsState ==
    \A a \in Alloc :
        /\ blocks[a].strong <= MaxHandles
        /\ blocks[a].weak <= MaxHandles + MaxAlloc

\* The step part of C18: every counter changes by a counted step.
C18_CountsStep ==
    \A a \in Alloc :
        /\ CountedStep(blocks[a].strong, blocks'[a].strong)
        /\ CountedStep(blocks[a].weak, blocks'[a].weak)

\* C18: no operation on Strong or Weak Handles, and no teardown of an
\* object, decrements the strong or the weak count of a control block that
\* is 0.
C18_NoDecrementAtZero == []C18_CountsState /\ [][C18_CountsStep]_vars

C18_Witness ==
    /\ last.op = "SDestroy" /\ last.res = "ok" /\ last.b = 0
    /\ \E a \in Alloc : blocks[a].st = "live" /\ blocks[a].strong = 0 /\ blocks[a].weak >= 1

\* the control blocks a step allocates
Allocated == {a \in Alloc : blocks[a].st = "none" /\ blocks'[a].st # "none"}

\* MakeShared puts the block and the object in one allocation: the new block
\* is an ObjectControlBlock and the object it holds is created with it.
Together(a) ==
    /\ blocks'[a].kind = "Obj" /\ blocks'[a].ptr = a
    /\ objs[a].st = "none" /\ objs'[a].st = "alive"

\* a raw pointer gets a PtrControlBlock of its own; no object is created
Separate(a) ==
    /\ blocks'[a].kind = "Ptr"
    /\ \A o \in Alloc : objs[o].st = "none" => objs'[o].st = "none"

\* C19 as stated: control blocks are allocated only by construction from a
\* raw pointer (exactly one PtrControlBlock) and by MakeShared (exactly one
\* allocation holding block and object together); every other operation,
\* Reset among them, allocates none.
C19_StatedStep ==
    /\ (last'.op \in {"SFromRaw", "SFromNull"} /\ last'.res = "ok") =>
            \E a \in Alloc : Allocated = {a} /\ Separate(a)
    /\ (last'.op = "MakeShared" /\ last'.res = "ok") =>
            \E a \in Alloc : Allocated = {a} /\ Together(a)
    /\ last'.op \notin {"SFromRaw", "SFromNull", "MakeShared"} => Allocated = {}

C19_AllocationOnlyInConstructPaths == [][C19_StatedStep]_vars

\* Reset(Y*) allocates too (new PtrControlBlock<Y>(ptr)).
C19_AmendedStep ==
    /\ (last'.op \in {"SFromRaw", "SFromNull", "SResetPtr"} /\ last'.res = "ok") =>
            \E a \in Alloc : Allocated = {a} /\ Separate(a)
    /\ (last'.op = "MakeShared" /\ last'.res = "ok") =>
            \E a \in Alloc : Allocated = {a} /\ Together(a)
    /\ last'.op \notin {"SFromRaw", "SFromNull", "SResetPtr", "MakeShared"} =>
            Allocated = {}

\* C19, amended: control blocks are allocated only by construction from a
\* raw pointer and by Reset(new pointer) (exactly one PtrControlBlock each)
\* and by MakeShared (exactly one allocation holding block and object
\* together); copy, move, assignment, aliasing, promotion, Lock, Reset()
\* and destruction allocate none.
C19_AllocationInConstructPathsAndResetPtr == [][C19_AmendedStep]_vars

C19_Witness ==
    /\ last.op = "SResetPtr" /\ last.res = "ok"
    /\ \E a, c \in Alloc :
           /\ blocks[a].st = "freed" /\ blocks[a].kind = "Obj"
           /\ blocks[c].st = "live" /\ blocks[c].kind = "Ptr" /\ blocks[c].strong = 1

\* the object of allocation a is managed by at least one Strong Handle
Managed(a) == Owns(a) /\ blocks[a].st = "live" /\ blocks[a].ptr = a /\ StrongRefs(a) >= 1

\* C20: an object that supports Self-Observation and is managed by at least
\* one Strong Handle is Bound, its internal Weak Handle pointing at the
\* control block that owns it, whether raw-pointer construction, MakeShared
\* or Reset(new pointer) made the handle manage it.
C20_ManagedObjectIsBound ==
    \A a \in Alloc :
        (Managed(a) /\ objs[a].st = "alive" /\ objs[a].esft) =>
            (Bound(a) /\ objs[a].wt_ptr = a)

C22_TeardownStep ==
    (last'.op = "RawDelete" /\ Uninitialized(last'.p)) =>
        /\ last'.res = "ok" /\ fault' = "none"
        /\ blocks' = blocks
        /\ objs'[last'.p].st = "dead"

\* C22: destroying an object that supports Self-Observation while it is
\* Uninitialized (never wrapped by a Strong Handle) accesses no control
\* block and changes no counter.
C22_UninitializedTeardownTouchesNoBlock == [][C22_TeardownStep]_vars

C23_NullStep ==
    /\ (last'.op \in {"SCopy", "SMove"} /\ last'.b = 0 /\ last'.p = 0) =>
            /\ last'.res = "ok" /\ fault' = "none"
            /\ blocks' = blocks /\ objs' = objs
            /\ \E t \in BOOLEAN : sp' = Add(sp, Empty(t))
    /\ last'.op = "SFromNull" => (last'.res = "ok" /\ fault' = "none")
    /\ (last'.op = "SAlias" /\ last'.p = 0) => (last'.res = "ok" /\ fault' = "none")

\* C23: copy- or move-constructing from an empty Strong Handle yields an
\* empty Strong Handle, changes no counter and dereferences no object, also
\* for an element type that supports Self-Observation; constructing from a
\* null raw pointer and aliasing to a null pointer never bind a
\* Self-Observation edge through a null object pointer.
C23_NullNeverBound == [][C23_NullStep]_vars

\* =================================================================
\* Raw-pointer construction beside MakeShared
\* =================================================================
\* The same program run twice in one state: allocation EqRaw is an object
\* given to SharedPtr(Y*), allocation EqMade is the object of a MakeShared
\* call, and every later operation is applied to a handle of the first and to
\* the matching handle of the second.  sp and wp hold the handles of the
\* first; the handles of the second are their images under Mirror.
EqRaw == 1
EqMade == 2

MirrorPtr(p) == IF p = EqRaw THEN EqMade ELSE p
Mirror(r) == Handle(r.esft, MirrorPtr(r.block), MirrorPtr(r.ptr))

\* the heap after the first run went from H to HA and the second from H to HB
Twin(HA, HB) ==
    Heap([a \in Alloc |-> IF a = EqMade THEN HB.b[a] ELSE HA.b[a]],
         [a \in Alloc |-> IF a = EqMade THEN HB.o[a] ELSE HA.o[a]],
         IF HA.f # "none" THEN HA.f ELSE HB.f)

\* the name under which a pair of operations is recorded: the two runs
\* diverge when one faults and the other does not, or when they return
\* handles that do not match
EqName(name, HA, HB, same) ==
    IF HA.f = HB.f /\ same THEN name ELSE "EqDiverged"

\* SharedPtr<T> a(new T) beside SharedPtr<T> b = MakeShared<T>()
EqConstruct(t) ==
    /\ Running /\ CanAddS
    /\ blocks[EqRaw].st = "none" /\ objs[EqRaw].st = "none"
    /\ blocks[EqMade].st = "none" /\ objs[EqMade].st = "none"
    /\ LET A0 == Heap([blocks EXCEPT ![EqRaw] = NewPtrBlock(EqRaw)],
                      [objs EXCEPT ![EqRaw] = NewObj(t)], "none")
           B0 == Heap([blocks EXCEPT ![EqMade] = NewObjBlock(EqMade)],
                      [objs EXCEPT ![EqMade] = NewObj(t)], "none")
           HA == IF t THEN InitWeakThis(A0, EqRaw, EqRaw) ELSE A0
           HB == IF t THEN InitWeakThis(B0, EqMade, EqMade) ELSE B0
       IN  Commit(Twin(HA, HB), Add(sp, Handle(t, EqRaw, EqRaw)), wp,
                  Op(EqName("EqConstruct", HA, HB, TRUE), "ok", EqRaw, EqRaw, 0))

EqCopy(o) ==
    /\ Running /\ CanAddS /\ BagIn(o, sp)
    /\ LET HA == CopyOf(H0, o)
           HB == CopyOf(H0, Mirror(o))
       IN  Commit(Twin(HA, HB), Add(sp, o), wp,
                  Op(EqName("EqCopy", HA, HB, TRUE), "ok", o.block, o.ptr, UseCount(o)))

EqMove(o) ==
    /\ Running /\ CanAddS /\ BagIn(o, sp)
    /\ LET HA == MoveOf(H0, o)
           HB == MoveOf(H0, Mirror(o))
       IN  Commit(Twin(HA, HB), Add(Add(Del(sp, o), Empty(o.esft)), o), wp,
                  Op(EqName("EqMove", HA, HB, TRUE), "ok", o.block, o.ptr, UseCount(o)))

EqReset(h) ==
    /\ Running /\ BagIn(h, sp)
    /\ LET HA == ReleaseOf(H0, h)
           HB == ReleaseOf(H0, Mirror(h))
       IN  Commit(Twin(HA, HB), Add(Del(sp, h), Empty(h.esft)), wp,
                  Op(EqName("EqReset", HA, HB, TRUE), "ok", h.block, h.ptr, UseCount(h)))

EqDestroy(h) ==
    /\ Running /\ BagIn(h, sp)
    /\ LET HA == ReleaseOf(H0, h)
           HB == ReleaseOf(H0, Mirror(h))
       IN  Commit(Twin(HA, HB), Del(sp, h), wp,
                  Op(EqName("EqDestroy", HA, HB, TRUE), "ok", h.block, h.ptr, UseCount(h)))

EqWeak(h) ==
    /\ Running /\ CanAddW /\ BagIn(h, sp)
    /\ LET HA == WeakOf(H0, h)
           HB == WeakOf(H0, Mirror(h))
       IN  Commit(Twin(HA, HB), sp, Add(wp, h),
                  Op(EqName("EqWeak", HA, HB, TRUE), "ok", h.block, h.ptr, UseCount(h)))

EqWDestroy(w) ==
    /\ Running /\ BagIn(w, wp)
    /\ LET HA == WeakReleaseOf(H0, w)
           HB == WeakReleaseOf(H0, Mirror(w))
       IN  Commit(Twin(HA, HB), sp, Del(wp, w),
                  Op(EqName("EqWDestroy", HA, HB, TRUE), "ok", w.block, w.ptr, UseCount(w)))

EqLock(w) ==
    /\ Running /\ CanAddS /\ BagIn(w, wp)
    /\ LET ra == LockOf(H0, w)
           rb == LockOf(H0, Mirror(w))
       IN  Commit(Twin(ra[1], rb[1]), Add(sp, ra[2]), wp,
                  Op(EqName("EqLock", ra[1], rb[1], rb[2] = Mirror(ra[2])), "ok",
                     w.block, w.ptr, UseCount(w)))

EqNext ==
    \/ \E t \in BOOLEAN : EqConstruct(t)
    \/ \E h \in BagToSet(sp) : EqCopy(h)
    \/ \E h \in BagToSet(sp) : EqMove(h)
    \/ \E h \in BagToSet(sp) : EqReset(h)
    \/ \E h \in BagToSet(sp) : EqDestroy(h)
    \/ \E h \in BagToSet(sp) : EqWeak(h)
    \/ \E w \in BagToSet(wp) : EqWDestroy(w)
    \/ \E w \in BagToSet(wp) : EqLock(w)

SpecEq == Init /\ [][EqNext]_vars

\* C12: after the same operations on a handle built from a raw pointer and on
\* a handle built by MakeShared, every UseCount() and every Expired() of the
\* matching handles agree, the two objects are alive or destroyed together
\* (each destroyed at most once), and neither run faults or returns a handle
\* where the other does not.
C12_MakeSharedLikeRawPointer ==
    /\ last.op # "EqDiverged"
    /\ \A r \in BagToSet(sp) : UseCount(r) = UseCount(Mirror(r))
    /\ \A w \in BagToSet(wp) :
           UseCount(w) = UseCount(Mirror(w)) /\ (Expired(w) <=> Expired(Mirror(w)))
    /\ objs[EqRaw].st = objs[EqMade].st /\ objs[EqRaw].dtors = objs[EqMade].dtors

C12_Witness ==
    /\ last.op = "EqDestroy" /\ last.res = "ok" /\ last.b = EqRaw /\ last.n = 1
    /\ blocks[EqRaw].kind = "Ptr" /\ blocks[EqMade].kind = "Obj"
    /\ objs[EqRaw].st = "dead" /\ objs[EqMade].st = "dead"
    /\ \E w \in BagToSet(wp) : w.block = EqRaw /\ Expired(w) /\ Expired(Mirror(w))

\* =================================================================
\* Handles held as data members
\*
\*   struct Node { SharedPtr<Node> next; WeakPtr<Node> back; };
\*
\* The caller makes nodes with MakeShared<Node>() or new Node, links them
\* through the members of the node a handle points at and lets go of its
\* handles; ~Node destroys the members.

\* A read or a write of a member of a node that has been destroyed goes
\* through a dangling reference (fault "DanglingRead").

\* the node the handle h points at, for h->next and h->back
NodeOf(h) == h.ptr
HasNode(h) ==
    /\ BagIn(h, sp) /\ ~h.esft /\ h.ptr \in Alloc
    /\ objs[h.ptr].st = "alive" /\ ~objs[h.ptr].esft

\* h->back = g;  WeakPtr& operator=(const SharedPtr<Y>& other) on the member
NodeSetBack(h, g) ==
    /\ Running /\ HasNode(h) /\ BagIn(g, sp) /\ ~g.esft
    /\ LET o   == NodeOf(h)
           old == objs[o].back_block
           H1  == IF old # 0 THEN DecreaseWeakCounter(H0, old) ELSE H0
           H2  == IF H1.f # "none" THEN H1 ELSE [H1 EXCEPT !.o[o].back_block = g.block]
           H3  == IF g.block # 0 THEN IncreaseWeakCounter(H2, g.block) ELSE H2
       IN  Commit(H3, sp, wp, Op("NodeSetBack", "ok", h.block, h.ptr, UseCount(g)))

\* h->next = g;  SharedPtr& operator=(const SharedPtr& other) on the member
NodeSetNext(h, g) ==
    /\ Running /\ HasNode(h) /\ BagIn(g, sp) /\ ~g.esft
    /\ LET o   == NodeOf(h)
           old == objs[o].next_block
           H1  == IF old # 0 THEN DecreaseStrongCounter(H0, old) ELSE H0
           H2  == IF H1.f # "none" THEN H1
                  ELSE IF H1.o[o].st # "alive" THEN Fail(H1, "DanglingRead")
                  ELSE [H1 EXCEPT !.o[o].next_block = g.block]
           H3  == IF g.block # 0 THEN IncreaseStrongCounter(H2, g.block) ELSE H2
       IN  Commit(H3, sp, wp, Op("NodeSetNext", "ok", h.block, h.ptr, UseCount(g)))

\* s = s->next;  SharedPtr& operator=(const SharedPtr& other) with other a
\* member of the node s points at: the target's old block is released
\* first, other.base_block_ and other.observed_ptr_ are read afterwards.
NodeAssignNext(s) ==
    /\ Running /\ HasNode(s)
    /\ LET o  == NodeOf(s)
           n  == objs[o].next_block
           H1 == IF s.block # 0 THEN DecreaseStrongCounter(H0, s.block) ELSE H0
           H2 == IF H1.f # "none" THEN H1
                 ELSE IF H1.o[o].st # "alive" THEN Fail(H1, "DanglingRead")
                 ELSE H1
           b  == H2.o[o].next_block
           H3 == IF H2.f = "none" /\ b # 0 THEN IncreaseStrongCounter(H2, b) ELSE H2
       IN  Commit(H3, Add(Del(sp, s), Handle(FALSE, b, b)), wp,
                  Op("NodeAssignNext", "ok", n, o, IF n # 0 THEN blocks[n].strong ELSE 0))

\* s = std::move(s->next);  SharedPtr& operator=(SharedPtr&& other)
NodeMoveAssignNext(s) ==
    /\ Running /\ HasNode(s)
    /\ LET o  == NodeOf(s)
           n  == objs[o].next_block
           H1 == IF s.block # 0 THEN DecreaseStrongCounter(H0, s.block) ELSE H0
           H2 == IF H1.f # "none" THEN H1
                 ELSE IF H1.o[o].st # "alive" THEN Fail(H1, "DanglingRead")
                 ELSE H1
           b  == H2.o[o].next_block
           H3 == IF H2.f # "none" THEN H2 ELSE [H2 EXCEPT !.o[o].next_block = 0]
       IN  Commit(H3, Add(Del(sp, s), Handle(FALSE, b, b)), wp,
                  Op("NodeMoveAssignNext", "ok", n, o, IF n # 0 THEN blocks[n].strong ELSE 0))

NodeNext ==
    \/ NewObject(FALSE)
    \/ \E p \in Alloc : SFromRaw(p)
    \/ MakeShared(FALSE)
    \/ \E h \in BagToSet(sp) : SCopy(h)
    \/ \E h \in BagToSet(sp) : SDestroy(h)
    \/ \E h \in BagToSet(sp) : WFromShared(h)
    \/ \E w \in BagToSet(wp) : WDestroy(w)
    \/ \E h, g \in BagToSet(sp) : NodeSetBack(h, g)
    \/ \E h, g \in BagToSet(sp) : NodeSetNext(h, g)
    \/ \E s \in BagToSet(sp) : NodeAssignNext(s)
    \/ \E s \in BagToSet(sp) : NodeMoveAssignNext(s)

SpecNode == Init /\ [][NodeNext]_vars

\* C21: every control block is freed at most once and is never read or
\* written after it was freed, also when a Weak Handle that references the
\* block is destroyed while the managed object is being destroyed (a weak
\* back-pointer held by the object or by a child it owns).
C21_BlockFreedOnceNeverUsedAfter ==
    /\ \A a \in Alloc : blocks[a].frees <= 1
    /\ fault # "UseAfterFree"

C24_AssignStep ==
    last'.op \in {"NodeAssignNext", "NodeMoveAssignNext"} =>
        /\ last'.res = "ok" /\ fault' = "none"
        /\ last'.b # 0 =>
              /\ blocks'[last'.b].st = "live"
              /\ blocks'[last'.b].strong >= 1
              /\ \E r \in BagToSet(sp') : r.block = last'.b
              /\ blocks'[last'.b].strong =
                    IF last'.op = "NodeAssignNext" THEN last'.n + 1 ELSE last'.n

\* C24: copy- and move-assignment of a Strong Handle read the source only
\* while it is alive: releasing what the target owned never destroys the
\* source before it has been read, also when the source is a member of the
\* object the target solely owns (s = s->next); afterwards the target shares
\* the block the source had, with a strong count that counts the target.
C24_AssignReadsLiveSource == [][C24_AssignStep]_vars

\* =================================================================
\* IntrusivePtr and RefCounted (src/intrusive/intrusive.h)
\*
\* rc[a] is an object of a class derived from SimpleRefCounted; a value of
\* IntrusivePtr is its ptr_object_ (0: nullptr), ip the bag of the live ones.

Counted(o, f) == [o |-> o, f |-> f]
I0 == Counted(rc, "none")

\* Deleter::Destroy(static_cast<Derived*>(this)): delete object
Destroy(I, p) == [I EXCEPT !.o[p].st = "dead", !.o[p].dtors = @ + 1]

\* RefCounted::IncRef: counter_.IncRef()
IncRef(I, p) ==
    IF I.f # "none" THEN I
    ELSE IF I.o[p].st # "alive" THEN [I EXCEPT !.f = "UseAfterFree"]
    ELSE [I EXCEPT !.o[p].count = Inc(@)]

\* RefCounted::DecRef
DecRef(I, p) ==
    IF I.f # "none" THEN I
    ELSE IF I.o[p].st # "alive" THEN [I EXCEPT !.f = "UseAfterFree"]
    ELSE IF I.o[p].count = 0 THEN Destroy(I, p)
    ELSE IF Dec(I.o[p].count) = 0 THEN Destroy([I EXCEPT !.o[p].count = Dec(@)], p)
    ELSE [I EXCEPT !.o[p].count = Dec(@)]

\* if (ptr_object_) ptr_object_->DecRef();
Drop(I, p) == IF p # 0 THEN DecRef(I, p) ELSE I
\* if (ptr_object_) ptr_object_->IncRef();
Take(I, p) == IF p # 0 THEN IncRef(I, p) ELSE I

\* RefCount() of the object p points at, before the operation
CountAt(p) == IF p # 0 THEN rc[p].count ELSE 0

CanAddI == BagCardinality(ip) < MaxHandles
FreeI == {a \in Alloc : rc[a].st = "none"}
NewI == CHOOSE a \in FreeI : \A c \in FreeI : a <= c
LiveI == {a \in Alloc : rc[a].st = "alive"}

\* The end of an operation on intrusive pointers; last.b is the pointer
\* DecRef() was called on (0: no call) and last.n the counter before it.
ICommit(I, ip2, l) ==
    /\ UNCHANGED <<blocks, objs, sp, wp, un, up>>
    /\ IF I.f # "none"
       THEN /\ fault' = I.f
            /\ last' = [l EXCEPT !.res = "fault"]
            /\ UNCHANGED <<rc, ip>>
       ELSE /\ rc' = I.o
            /\ ip' = ip2
            /\ fault' = "none"
            /\ last' = l

\* new T, not yet given to a handle
IntrNewObject ==
    /\ Running /\ FreeI # {}
    /\ ICommit([I0 EXCEPT !.o[NewI] = [st |-> "alive", count |-> 0, dtors |-> 0]], ip,
               Op("IntrNewObject", "ok", 0, NewI, 0))

\* IntrusivePtr() and IntrusivePtr(std::nullptr_t)
IntrNew ==
    /\ Running /\ CanAddI
    /\ ICommit(I0, Add(ip, 0), Op("IntrNew", "ok", 0, 0, 0))

\* IntrusivePtr(T* ptr), ptr the address of a live object
IntrFromRaw(p) ==
    /\ Running /\ CanAddI /\ p \in LiveI
    /\ ICommit(IncRef(I0, p), Add(ip, p), Op("IntrFromRaw", "ok", 0, p, 0))

\* MakeIntrusive<T>(args...): IntrusivePtr<T>(new T(args...))
MakeIntrusive ==
    /\ Running /\ CanAddI /\ FreeI # {}
    /\ ICommit(IncRef([I0 EXCEPT !.o[NewI] = [st |-> "alive", count |-> 0, dtors |-> 0]], NewI),
               Add(ip, NewI), Op("MakeIntrusive", "ok", 0, NewI, 0))

\* IntrusivePtr(const IntrusivePtr& other)
IntrCopy(o) ==
    /\ Running /\ CanAddI /\ BagIn(o, ip)
    /\ ICommit(Take(I0, o), Add(ip, o), Op("IntrCopy", "ok", 0, o, 0))

\* IntrusivePtr(IntrusivePtr&& other)
IntrMove(o) ==
    /\ Running /\ CanAddI /\ BagIn(o, ip)
    /\ ICommit(I0, Add(Add(Del(ip, o), 0), o), Op("IntrMove", "ok", 0, o, 0))

\* IntrusivePtr& operator=(const IntrusivePtr& other); *this != other
\* compares the two pointers
IntrAssign(d, o) ==
    /\ Running /\ BagIn(d, ip) /\ BagIn(o, ip)
    /\ IF d = o
       THEN ICommit(I0, ip, Op("IntrAssign", "same", 0, o, 0))
       ELSE ICommit(Take(Drop(I0, d), o), Add(Del(ip, d), o),
                    Op("IntrAssign", "ok", d, o, CountAt(d)))

\* IntrusivePtr& operator=(IntrusivePtr&& other)
IntrMoveAssign(d, o) ==
    /\ Running /\ BagIn(d, ip) /\ BagIn(o, ip)
    /\ IF d = o
       THEN ICommit(I0, ip, Op("IntrMoveAssign", "same", 0, o, 0))
       ELSE ICommit(Drop(I0, d), Add(Add(Del(Del(ip, d), o), o), 0),
                    Op("IntrMoveAssign", "ok", d, o, CountAt(d)))

\* ~IntrusivePtr()
IntrDestroy(h) ==
    /\ Running /\ BagIn(h, ip)
    /\ ICommit(Drop(I0, h), Del(ip, h), Op("IntrDestroy", "ok", h, 0, CountAt(h)))

\* void Reset()
IntrReset(h) ==
    /\ Running /\ BagIn(h, ip)
    /\ ICommit(Drop(I0, h), Add(Del(ip, h), 0), Op("IntrReset", "ok", h, 0, CountAt(h)))

\* void Reset(T* ptr), ptr the address of a live object other than the one
\* the handle points at
IntrResetPtr(h, p) ==
    /\ Running /\ BagIn(h, ip) /\ p \in LiveI /\ p # h
    /\ ICommit(Drop(I0, h), Add(Del(ip, h), p), Op("IntrResetPtr", "ok", h, p, CountAt(h)))

IntrNext ==
    \/ IntrNewObject
    \/ IntrNew
    \/ \E p \in Alloc : IntrFromRaw(p)
    \/ MakeIntrusive
    \/ \E h \in BagToSet(ip) : IntrCopy(h)
    \/ \E h \in BagToSet(ip) : IntrMove(h)
    \/ \E h, g \in BagToSet(ip) : IntrAssign(h, g)
    \/ \E h, g \in BagToSet(ip) : IntrMoveAssign(h, g)
    \/ \E h \in BagToSet(ip) : IntrDestroy(h)
    \/ \E h \in BagToSet(ip) : IntrReset(h)
    \/ \E h \in BagToSet(ip), p \in Alloc : IntrResetPtr(h, p)

SpecIntr == Init /\ [][IntrNext]_vars

\* the live IntrusivePtr handles that point at object a
IntrRefs(a) == IF a \in BagToSet(ip) THEN ip[a] ELSE 0

\* C25: after any sequence of construct-from-raw-pointer, MakeIntrusive,
\* copy, move, assign, Reset(), Reset(ptr) and destroy, the embedded
\* RefCount() of an object equals the number of live IntrusivePtr handles
\* that point at it, and the object is destroyed exactly once, in the step
\* in which the last such handle releases it.
C25_RefCountIsLiveHandles ==
    /\ fault = "none"
    /\ \A a \in Alloc :
          /\ rc[a].dtors <= 1
          /\ rc[a].st = "alive" => rc[a].count = IntrRefs(a)
          /\ rc[a].st = "dead" => IntrRefs(a) = 0

C26_DecRefStep ==
    (last'.op \in {"IntrAssign", "IntrMoveAssign", "IntrDestroy", "IntrReset", "IntrResetPtr"}
        /\ last'.b # 0) =>
        /\ last'.res # "fault"
        /\ last'.n >= 1
        /\ IF last'.n = 1
           THEN rc'[last'.b].st = "dead" /\ rc'[last'.b].dtors = rc[last'.b].dtors + 1
           ELSE /\ rc'[last'.b].st = "alive"
                /\ rc'[last'.b].count = last'.n - 1

\* C26: RefCounted::DecRef decrements the embedded counter by one on every
\* call and destroys the object if and only if the result is 0, and no
\* sequence of IntrusivePtr operations calls it when the counter is 0.
C26_DecRefDecrementsThenChecks == [][C26_DecRefStep]_vars

\* =================================================================
\* UniquePtr (src/unique/unique.h)
\*
\* un[a] is a pointer the caller got from new: whether it is still
\* allocated, how often a deleter was invoked on it and whether Release()
\* handed it back.  A value of UniquePtr is the pointer in compressed_pair_
\* (0: nullptr), up the bag of the live ones.

Owned(o, f) == [o |-> o, f |-> f]
U0 == Owned(un, "none")

CanAddU == BagCardinality(up) < MaxHandles
FreeU == {a \in Alloc : un[a].st = "none"}
NewU == CHOOSE a \in FreeU : \A c \in FreeU : a <= c
\* new T
Fresh(U, a) == [U EXCEPT !.o[a] = [st |-> "live", deleted |-> 0, released |-> FALSE]]

\* compressed_pair_.GetSecond()(temp): DefaultDeleter deletes the pointer
Deleter(U, p) ==
    IF U.f # "none" THEN U
    ELSE IF U.o[p].st # "live" THEN [U EXCEPT !.f = "UseAfterFree", !.o[p].deleted = @ + 1]
    ELSE [U EXCEPT !.o[p].st = "deleted", !.o[p].deleted = @ + 1]

\* Reset(T*) that keeps the old pointer from the deleter.
ResetLeaking(U, cur, ptr) == <<U, ptr>>

\* void Reset(T* ptr = nullptr) on a UniquePtr that holds cur:
\* <<heap, pointer held afterwards>>
Reset(U, cur, ptr) == <<IF cur # 0 THEN Deleter(U, cur) ELSE U, ptr>>

\* T* Release() on a UniquePtr that holds cur: <<pointer held afterwards,
\* pointer returned>>
Release(cur) == <<0, cur>>

\* the caller keeps a pointer Release() returned
Returned(U, p) == IF p # 0 THEN [U EXCEPT !.o[p].released = TRUE] ELSE U

\* The end of an operation on UniquePtr values.
UCommit(R, up2, l) ==
    /\ UNCHANGED <<blocks, objs, sp, wp, rc, ip>>
    /\ IF R.f # "none"
       THEN /\ fault' = R.f
            /\ last' = [l EXCEPT !.res = "fault"]
            /\ UNCHANGED <<un, up>>
       ELSE /\ un' = R.o
            /\ up' = up2
            /\ fault' = "none"
            /\ last' = l

\* UniquePtr() / UniquePtr(nullptr)
UniqNew ==
    /\ Running /\ CanAddU
    /\ UCommit(U0, Add(up, 0), Op("UniqNew", "ok", 0, 0, 0))

\* UniquePtr(new T)
UniqFromRaw ==
    /\ Running /\ CanAddU /\ FreeU # {}
    /\ UCommit(Fresh(U0, NewU), Add(up, NewU), Op("UniqFromRaw", "ok", 0, NewU, 0))

\* UniquePtr(UniquePtr&& other): compressed_pair_(other.Release(), ...)
UniqMove(o) ==
    /\ Running /\ CanAddU /\ BagIn(o, up)
    /\ LET r == Release(o)
       IN  UCommit(U0, Add(Add(Del(up, o), r[1]), r[2]), Op("UniqMove", "ok", 0, o, 0))

\* UniquePtr& operator=(UniquePtr&& other): Reset(other.Release());
\* self: this == &other
UniqMoveAssign(d, o, self) ==
    /\ Running /\ BagIn(d, up) /\ BagIn(o, up)
    /\ IF self
       THEN /\ d = o
            /\ LET r == Release(d)
                   s == Reset(U0, r[1], r[2])
               IN  UCommit(s[1], Add(Del(up, d), s[2]), Op("UniqMoveAssign", "self", d, o, 0))
       ELSE /\ Distinct(up, d, o)
            /\ LET r == Release(o)
                   s == Reset(U0, d, r[2])
               IN  UCommit(s[1], Add(Add(Del(Del(up, d), o), r[1]), s[2]),
                           Op("UniqMoveAssign", "ok", d, o, 0))

\* T* Release(); the caller keeps the pointer
UniqRelease(h) ==
    /\ Running /\ BagIn(h, up)
    /\ LET r == Release(h)
       IN  UCommit(Returned(U0, r[2]), Add(Del(up, h), r[1]), Op("UniqRelease", "ok", h, 0, 0))

\* Reset()
UniqReset(h) ==
    /\ Running /\ BagIn(h, up)
    /\ LET s == Reset(U0, h, 0)
       IN  UCommit(s[1], Add(Del(up, h), s[2]), Op("UniqReset", "ok", h, 0, 0))

\* Reset(new T)
UniqResetPtr(h) ==
    /\ Running /\ BagIn(h, up) /\ FreeU # {}
    /\ LET s == Reset(Fresh(U0, NewU), h, NewU)
       IN  UCommit(s[1], Add(Del(up, h), s[2]), Op("UniqResetPtr", "ok", h, NewU, 0))

\* ~UniquePtr(): Reset()
UniqDestroy(h) ==
    /\ Running /\ BagIn(h, up)
    /\ LET s == Reset(U0, h, 0)
       IN  UCommit(s[1], Del(up, h), Op("UniqDestroy", "ok", h, 0, 0))

UniqNext ==
    \/ UniqNew
    \/ UniqFromRaw
    \/ \E h \in BagToSet(up) : UniqMove(h)
    \/ \E h, g \in BagToSet(up), self \in BOOLEAN : UniqMoveAssign(h, g, self)
    \/ \E h \in BagToSet(up) : UniqRelease(h)
    \/ \E h \in BagToSet(up) : UniqReset(h)
    \/ \E h \in BagToSet(up) : UniqResetPtr(h)
    \/ \E h \in BagToSet(up) : UniqDestroy(h)

SpecUniq == Init /\ [][UniqNext]_vars

\* the live UniquePtr values that hold pointer a
Owners(a) == IF a \in BagToSet(up) THEN up[a] ELSE 0

\* C27: after any sequence of construct, move-construct, move-assign (self
\* move-assignment too), Release, Reset(ptr) and destroy on distinct
\* pointers, each non-null pointer is owned by at most one UniquePtr; the
\* deleter has been invoked exactly once on every pointer whose owner was
\* destroyed, reset or move-assigned over, and never on a pointer that
\* Release() returned (nor on null).
C27_OneOwnerOneDelete ==
    /\ fault = "none"
    /\ \A a \in Alloc :
          /\ Owners(a) <= 1
          /\ un[a].st = "none" => (Owners(a) = 0 /\ un[a].deleted = 0)
          /\ un[a].st # "none" =>
                \/ Owners(a) = 1 /\ ~un[a].released /\ un[a].deleted = 0 /\ un[a].st = "live"
                \/ Owners(a) = 0 /\ un[a].released /\ un[a].deleted = 0 /\ un[a].st = "live"
                \/ Owners(a) = 0 /\ ~un[a].released /\ un[a].deleted = 1 /\ un[a].st = "deleted"

C27_Witness ==
    /\ last.op = "UniqMoveAssign" /\ last.res = "self" /\ last.b # 0
    /\ Owners(last.b) = 1
    /\ \E a \in Alloc : un[a].deleted = 1

====
